---- MODULE Spec2Model ----
(***************************************************************************)
(* Process-group initializers of internlm/core/context/                    *)
(* process_group_initializer.py: every rank of a job constructs one        *)
(* ProcessGroupInitializer and runs its init_dist_group, which enumerates  *)
(* the partitions of one parallel mode and calls dist.new_group for each.  *)
(* split_params_into_different_groups_for_optimizer of                     *)
(* internlm/train/utils.py moves the parameters of the optimizer's groups  *)
(* into the fp32, norm, gate and expert groups.                            *)
(***************************************************************************)
EXTENDS Integers, Sequences, FiniteSets, TLC

\* Largest world size of a job whose ranks all run against the collective transport.
MaxWorld == 3
\* Largest world size of a single rank run against a transport stub.
MaxWorldStub == 8
\* Largest data, zero1, nettest or expert parallel size given to a single rank.
MaxSize == 4
\* Largest pipeline_parallel_size and tensor_parallel_size given to a single rank.
MaxModel == 2
\* Largest parallel size of a job whose ranks all run.
MaxJobSize == 2
\* Largest number of parameters in the groups given to the optimizer split.
MaxParams == 2

\* Python's None for local_rank, group_world_size, process_group and cpu_group.
None == -1
\* Python's None for ranks_in_group (no partition of a resolver is kept empty).
NoRanks == << >>

VARIABLES
    topology,   \* the sizes every initializer is constructed with
    axis,       \* the ProcessGroupInitializer subclass under construction
    use_cpu,    \* argument of init_dist_group
    backend,    \* dist.get_backend()
    transport,  \* "collective": dist.new_group synchronises; "stub": it returns at once
    procs,      \* the ranks that run
    pc,         \* per rank: where it is
    loop,       \* per rank: the iterations its init_dist_group goes through (fixed by its arguments)
    idx,        \* per rank: index of the loop iteration it is in
    calls,      \* per rank: the dist.new_group calls it has issued, in order
    group,      \* per rank: the loop variable `group` of the current iteration
    loc,        \* per rank: local_rank, group_world_size, process_group, cpu_group, ranks_in_group
    groups,     \* per rank: the list `groups` of Initializer_Expert_Data.init_dist_group
    made,       \* per rank: the iterations completed, each with its ranks, group and group_cpu
    result,     \* per rank: the value init_dist_group returned
    split_pc,       \* where split_params_into_different_groups_for_optimizer is
    split_arg,      \* its argument: the type and the parameter groups passed
    num_experts,    \* gpc.config.model.get("num_experts", 0)
    expert_parallel_group_names,  \* gpc.expert_parallel_group_names
    param_groups,   \* the local list param_groups
    new_groups,     \* the local dict new_groups, in insertion order
    pgroup_idx,     \* index of the pgroup the loop is at
    split_result    \* the tuple returned

split_vars == << split_pc, split_arg, num_experts, expert_parallel_group_names,
                 param_groups, new_groups, pgroup_idx, split_result >>

vars == << topology, axis, use_cpu, backend, transport, procs, pc, loop, idx, calls,
           group, loc, groups, made, result, split_vars >>

\* split_params_into_different_groups_for_optimizer is not called
NoSplit ==
    /\ split_pc = "idle"
    /\ split_arg = [type |-> "list", groups |-> << >>]
    /\ num_experts = 0
    /\ expert_parallel_group_names = << >>
    /\ param_groups = << >>
    /\ new_groups = << >>
    /\ pgroup_idx = 0
    /\ split_result = << >>

(***************************************************************************)
(* Python helpers                                                          *)
(***************************************************************************)
\* list(range(start, stop, step)) for step > 0
range(start, stop, step) ==
    LET n == IF stop > start THEN (stop - start + step - 1) \div step ELSE 0
    IN  [k \in 1..n |-> start + (k - 1) * step]

\* lst[i:j] for 0 <= i <= j
slice(lst, i, j) ==
    LET hi == IF j < Len(lst) THEN j ELSE Len(lst)
    IN  IF i >= hi THEN << >> ELSE [k \in 1..(hi - i) |-> lst[i + k]]

\* x in lst
in(x, lst) == \E k \in 1..Len(lst) : lst[k] = x

\* lst.index(x), 0-based, for x in lst
index(lst, x) == (CHOOSE k \in 1..Len(lst) : lst[k] = x /\ \A m \in 1..(k - 1) : lst[m] # x) - 1

\* (mutant) the chunks are not transposed
zip_identity(lists) == lists

\* [list(t) for t in zip(*lists)]
zip(lists) ==
    IF Len(lists) = 0 THEN << >>
    ELSE LET n == CHOOSE m \in {Len(lists[c]) : c \in 1..Len(lists)} :
                      \A c \in 1..Len(lists) : Len(lists[c]) >= m
         IN  [k \in 1..n |-> [c \in 1..Len(lists) |-> lists[c][k]]]

\* the concatenation of a list of lists (list.extend in a loop)
RECURSIVE extend(_)
extend(lists) == IF Len(lists) = 0 THEN << >> ELSE Head(lists) \o extend(Tail(lists))

(***************************************************************************)
(* The initializers: what __init__ asserts and the `ranks` lists that the  *)
(* loop of init_dist_group builds, in loop order.                          *)
(***************************************************************************)
\* (mutant) the assertion of Initializer_Data.__init__ is missing
Initializer_Data_init_unchecked(t) == TRUE

Initializer_Data_init(t) == t.world_size % t.data_parallel_size = 0

Initializer_Data_ranks(t) ==
    LET rank_num_per_dp_group == t.world_size \div t.data_parallel_size
    IN  [i \in 1..rank_num_per_dp_group |->
            [j \in 1..t.data_parallel_size |-> (i - 1) + (j - 1) * rank_num_per_dp_group]]

Initializer_Model_init(t) ==
    t.world_size % (t.tensor_parallel_size * t.pipeline_parallel_size) = 0

Initializer_Model_ranks(t) ==
    LET rank_num_per_group == t.tensor_parallel_size * t.pipeline_parallel_size
        num_group == t.world_size \div rank_num_per_group
    IN  [i \in 1..num_group |->
            [j \in 1..rank_num_per_group |-> (i - 1) * rank_num_per_group + (j - 1)]]

Initializer_Pipeline_init(t) ==
    /\ t.world_size % t.data_parallel_size = 0
    /\ (t.world_size \div t.data_parallel_size) % t.pipeline_parallel_size = 0

\* (mutant) the stride of a pipeline group is pipeline_parallel_size
Initializer_Pipeline_ranks_stride_pp(t) ==
    LET rank_num_per_dp_group == t.world_size \div t.data_parallel_size
        pipeline_stage_size == rank_num_per_dp_group \div t.pipeline_parallel_size
    IN  extend([i \in 1..t.data_parallel_size |->
            [j \in 1..pipeline_stage_size |->
                range((i - 1) * rank_num_per_dp_group + (j - 1),
                      i * rank_num_per_dp_group,
                      t.pipeline_parallel_size)]])

Initializer_Pipeline_ranks(t) ==
    LET rank_num_per_dp_group == t.world_size \div t.data_parallel_size
        pipeline_stage_size == rank_num_per_dp_group \div t.pipeline_parallel_size
    IN  extend([i \in 1..t.data_parallel_size |->
            [j \in 1..pipeline_stage_size |->
                range((i - 1) * rank_num_per_dp_group + (j - 1),
                      i * rank_num_per_dp_group,
                      pipeline_stage_size)]])

Initializer_Tensor_init(t) == t.world_size % t.tensor_parallel_size = 0

Initializer_Tensor_ranks(t) ==
    LET num_tensor_parallel_group == t.world_size \div t.tensor_parallel_size
    IN  [i \in 1..num_tensor_parallel_group |->
            [j \in 1..t.tensor_parallel_size |-> (i - 1) * t.tensor_parallel_size + (j - 1)]]

Initializer_Zero1_init(t) ==
    /\ t.world_size % t.data_parallel_size = 0
    /\ t.world_size % t.zero1_parallel_size = 0

Initializer_Zero1_ranks(t) ==
    LET rank_num_per_dp_group == t.world_size \div t.data_parallel_size
        num_zero1_parallel_group == t.data_parallel_size \div t.zero1_parallel_size
    IN  extend([i \in 1..rank_num_per_dp_group |->
            [j \in 1..num_zero1_parallel_group |->
                [k \in 1..t.zero1_parallel_size |->
                    (i - 1) + ((j - 1) * t.zero1_parallel_size + (k - 1)) * rank_num_per_dp_group]]])

\* Initializer_Nettest.__init__ asserts nothing
Initializer_Nettest_init(t) == TRUE

\* (mutant) the last group is not truncated at world_size
Initializer_Nettest_ranks_untruncated(t) ==
    LET num_nettest_group ==
            (t.world_size + t.nettest_parallel_size - 1) \div t.nettest_parallel_size
    IN  [i \in 1..num_nettest_group |->
            [j \in 1..t.nettest_parallel_size |-> (i - 1) * t.nettest_parallel_size + (j - 1)]]

Initializer_Nettest_ranks(t) ==
    LET num_nettest_group ==
            (t.world_size + t.nettest_parallel_size - 1) \div t.nettest_parallel_size
    IN  [i \in 1..num_nettest_group |->
            SelectSeq([j \in 1..t.nettest_parallel_size |->
                          (i - 1) * t.nettest_parallel_size + (j - 1)],
                      LAMBDA rank : rank < t.world_size)]

\* (mutant) Initializer_Expert.__init__ without data_parallel_size == expert_parallel_size
Initializer_Expert_init_any_dp(t) ==
    LET num_expert_parallel_group == t.world_size \div t.expert_parallel_size
    IN  /\ num_expert_parallel_group # 0
        /\ t.world_size % num_expert_parallel_group = 0

\* world_size % num_expert_parallel_group raises ZeroDivisionError when the
\* quotient is 0; the assertions fail otherwise
Initializer_Expert_init(t) ==
    LET num_expert_parallel_group == t.world_size \div t.expert_parallel_size
    IN  /\ num_expert_parallel_group # 0
        /\ t.world_size % num_expert_parallel_group = 0
        /\ t.data_parallel_size = t.expert_parallel_size

Initializer_Expert_ranks(t) ==
    LET num_expert_parallel_group == t.world_size \div t.expert_parallel_size
    IN  [i \in 1..num_expert_parallel_group |->
            range(i - 1, t.world_size, num_expert_parallel_group)]

\* Initializer_Expert_Data.__init__ asserts nothing
Initializer_Expert_Data_init(t) == TRUE

data_parallel_groups(t) ==
    LET model_parallel_size == t.pipeline_parallel_size * t.tensor_parallel_size
    IN  [i \in 1..model_parallel_size |-> range(i - 1, t.world_size, model_parallel_size)]

part_ep_group(t, dp_ranks) ==
    LET starts == range(0, t.data_parallel_size, t.expert_parallel_size)
    IN  [n \in 1..Len(starts) |-> slice(dp_ranks, starts[n], starts[n] + t.expert_parallel_size)]

expert_parallel_groups(t) ==
    extend([d \in 1..Len(data_parallel_groups(t)) |->
               part_ep_group(t, data_parallel_groups(t)[d])])

expert_data_parallel_groups(t) ==
    extend([d \in 1..Len(data_parallel_groups(t)) |->
               zip(part_ep_group(t, data_parallel_groups(t)[d]))])

Axes == { "Initializer_Data", "Initializer_Model", "Initializer_Pipeline",
          "Initializer_Tensor", "Initializer_Zero1", "Initializer_Nettest",
          "Initializer_Expert", "Initializer_Expert_Data" }

\* __init__ of the class returns without raising
Accepts(ax, t) ==
    CASE ax = "Initializer_Data" -> Initializer_Data_init(t)
      [] ax = "Initializer_Model" -> Initializer_Model_init(t)
      [] ax = "Initializer_Pipeline" -> Initializer_Pipeline_init(t)
      [] ax = "Initializer_Tensor" -> Initializer_Tensor_init(t)
      [] ax = "Initializer_Zero1" -> Initializer_Zero1_init(t)
      [] ax = "Initializer_Nettest" -> Initializer_Nettest_init(t)
      [] ax = "Initializer_Expert" -> Initializer_Expert_init(t)
      [] ax = "Initializer_Expert_Data" -> Initializer_Expert_Data_init(t)

\* tag every list of a family with its ParallelMode
Tagged(lists, mode) == [n \in 1..Len(lists) |-> [ranks |-> lists[n], mode |-> mode]]

\* The iterations of init_dist_group in loop order: the `ranks` of each and the
\* ParallelMode it is registered under.
Enumerated(ax, t) ==
    CASE ax = "Initializer_Data" -> Tagged(Initializer_Data_ranks(t), "data")
      [] ax = "Initializer_Model" -> Tagged(Initializer_Model_ranks(t), "model")
      [] ax = "Initializer_Pipeline" -> Tagged(Initializer_Pipeline_ranks(t), "pipe")
      [] ax = "Initializer_Tensor" -> Tagged(Initializer_Tensor_ranks(t), "tensor")
      [] ax = "Initializer_Zero1" -> Tagged(Initializer_Zero1_ranks(t), "zero1")
      [] ax = "Initializer_Nettest" -> Tagged(Initializer_Nettest_ranks(t), "nettest")
      [] ax = "Initializer_Expert" -> Tagged(Initializer_Expert_ranks(t), "expert")
      [] ax = "Initializer_Expert_Data" ->
            Tagged(expert_parallel_groups(t), "expert")
                \o Tagged(expert_data_parallel_groups(t), "expert_data")

\* (mutant) a rank goes through the partitions that contain it before the others
LoopOwnFirst(rank, ax, t) ==
    SelectSeq(Enumerated(ax, t), LAMBDA it : in(rank, it.ranks))
        \o SelectSeq(Enumerated(ax, t), LAMBDA it : ~in(rank, it.ranks))

\* (mutant) a rank goes through the partitions that contain it only
LoopOwnOnly(rank, ax, t) == SelectSeq(Enumerated(ax, t), LAMBDA it : in(rank, it.ranks))

\* The iterations that `rank` goes through: no loop bound and no `ranks` list
\* reads self.rank, and dist.new_group is outside `if self.rank in ranks`.
Loop(rank, ax, t) == Enumerated(ax, t)

\* (mutant) the gloo group is created whenever use_cpu is set
NeedsCpuCallAlways(cpu, be) == cpu

\* dist.new_group(ranks, backend="gloo") is called for the iteration
NeedsCpuCall(cpu, be) == cpu /\ be # "gloo"

\* the loop variable group_cpu once the iteration's calls have returned
GroupCpu(cpu, be, grp, grp_gloo) ==
    IF cpu THEN (IF be # "gloo" THEN grp_gloo ELSE grp) ELSE None

\* dist.new_group(ranks) and dist.new_group(ranks, backend="gloo")
PrimaryCall(ranks) == [ranks |-> ranks, backend |-> "default"]
CpuCall(ranks) == [ranks |-> ranks, backend |-> "gloo"]

\* the locals of init_dist_group before its loop
InitialLocals ==
    [local_rank |-> None, group_world_size |-> None, process_group |-> None,
     cpu_group |-> None, ranks_in_group |-> NoRanks]

\* (mutant) the locals are assigned in every iteration
AssignedAlways(rank, l, ranks, grp, grp_cpu) ==
    [local_rank |-> IF in(rank, ranks) THEN index(ranks, rank) ELSE None,
     group_world_size |-> Len(ranks),
     process_group |-> grp, cpu_group |-> grp_cpu, ranks_in_group |-> ranks]

\* the body of `if self.rank in ranks:`
Assigned(rank, l, ranks, grp, grp_cpu) ==
    IF in(rank, ranks)
    THEN [local_rank |-> index(ranks, rank), group_world_size |-> Len(ranks),
          process_group |-> grp, cpu_group |-> grp_cpu, ranks_in_group |-> ranks]
    ELSE l

\* the tuple built from the locals
Entry(l, mode) ==
    [local_rank |-> l.local_rank, group_world_size |-> l.group_world_size,
     process_group |-> l.process_group, cpu_group |-> l.cpu_group,
     ranks_in_group |-> l.ranks_in_group, mode |-> mode]

\* groups.append(...) of Initializer_Expert_Data, inside `if self.rank in ranks:`
Appended(rank, gs, l, it) ==
    IF in(rank, it.ranks) THEN Append(gs, Entry(l, it.mode)) ELSE gs

ModeOf(ax) ==
    CASE ax = "Initializer_Data" -> "data"
      [] ax = "Initializer_Model" -> "model"
      [] ax = "Initializer_Pipeline" -> "pipe"
      [] ax = "Initializer_Tensor" -> "tensor"
      [] ax = "Initializer_Zero1" -> "zero1"
      [] ax = "Initializer_Nettest" -> "nettest"
      [] ax = "Initializer_Expert" -> "expert"
      [] ax = "Initializer_Expert_Data" -> "expert_data"

\* what init_dist_group returns: one tuple, or the list `groups`
Returned(ax, l, gs) ==
    IF ax = "Initializer_Expert_Data" THEN gs ELSE << Entry(l, ModeOf(ax)) >>

(***************************************************************************)
(* The job: the arguments every rank passes and the ranks that run.        *)
(***************************************************************************)
\* the sizes a class reads besides world_size
Reads(ax) ==
    CASE ax = "Initializer_Data" -> { "data_parallel_size" }
      [] ax = "Initializer_Model" -> { "tensor_parallel_size", "pipeline_parallel_size" }
      [] ax = "Initializer_Pipeline" -> { "data_parallel_size", "pipeline_parallel_size" }
      [] ax = "Initializer_Tensor" -> { "tensor_parallel_size" }
      [] ax = "Initializer_Zero1" -> { "data_parallel_size", "zero1_parallel_size" }
      [] ax = "Initializer_Nettest" -> { "nettest_parallel_size" }
      [] ax = "Initializer_Expert" -> { "data_parallel_size", "expert_parallel_size" }
      [] ax = "Initializer_Expert_Data" ->
            { "data_parallel_size", "expert_parallel_size",
              "pipeline_parallel_size", "tensor_parallel_size" }

\* the values tried for size f of class ax: 1 when the class never reads it
Sizes(ax, f, bound) == IF f \in Reads(ax) THEN 1..bound ELSE {1}

\* The argument records tried for a class: world_size up to maxWorld, the
\* pipeline and tensor sizes up to maxModel and the other sizes up to maxSize.
Topologies(ax, maxWorld, maxSize, maxModel) ==
    { [world_size |-> w, data_parallel_size |-> d, pipeline_parallel_size |-> p,
       tensor_parallel_size |-> tp, zero1_parallel_size |-> z,
       nettest_parallel_size |-> n, expert_parallel_size |-> e] :
        w \in 1..maxWorld,
        d \in Sizes(ax, "data_parallel_size", maxSize),
        p \in Sizes(ax, "pipeline_parallel_size", maxModel),
        tp \in Sizes(ax, "tensor_parallel_size", maxModel),
        z \in Sizes(ax, "zero1_parallel_size", maxSize),
        n \in Sizes(ax, "nettest_parallel_size", maxSize),
        e \in Sizes(ax, "expert_parallel_size", maxSize) }

Ranks(t) == 0..(t.world_size - 1)

InitJob(maxWorld, maxSize, maxModel, tr) ==
    /\ axis \in Axes
    /\ topology \in Topologies(axis, maxWorld, maxSize, maxModel)
    /\ use_cpu \in BOOLEAN
    /\ backend \in { "nccl", "gloo" }
    /\ transport = tr
    /\ procs \in (IF tr = "collective" THEN { Ranks(topology) }
                  ELSE { {r} : r \in Ranks(topology) })
    /\ pc = [r \in procs |-> "new"]
    /\ loop = [r \in procs |->
                  IF Accepts(axis, topology) THEN Loop(r, axis, topology) ELSE << >>]
    /\ idx = [r \in procs |-> 0]
    /\ calls = [r \in procs |-> << >>]
    /\ group = [r \in procs |-> None]
    /\ loc = [r \in procs |-> InitialLocals]
    /\ groups = [r \in procs |-> << >>]
    /\ made = [r \in procs |-> << >>]
    /\ result = [r \in procs |-> << >>]
    /\ NoSplit

\* every rank of the job runs, against the collective transport
Init == InitJob(MaxWorld, MaxJobSize, MaxJobSize, "collective")

\* one rank of the job runs, against a transport stub that records the calls
InitStub == InitJob(MaxWorldStub, MaxSize, MaxModel, "stub")

(***************************************************************************)
(* The transport.  dist.new_group is collective over the whole job: the    *)
(* n-th call of a rank returns once every rank has issued its n-th call    *)
(* with the same rank list and backend.  The stub returns at once.         *)
(***************************************************************************)
Matched(r) ==
    \/ transport = "stub"
    \/ \A q \in procs :
          /\ Len(calls[q]) >= Len(calls[r])
          /\ calls[q][Len(calls[r])] = calls[r][Len(calls[r])]

\* a blocked call of r that can never be matched: its timeout fires
TimesOut(r) ==
    /\ transport = "collective"
    /\ pc[r] \in { "new_group", "new_group_gloo" }
    /\ \E q \in procs :
          \/ /\ Len(calls[q]) >= Len(calls[r])
             /\ calls[q][Len(calls[r])] # calls[r][Len(calls[r])]
          \/ /\ Len(calls[q]) < Len(calls[r])
             /\ pc[q] \in { "done", "error" }

(***************************************************************************)
(* The steps of a rank.                                                    *)
(***************************************************************************)
\* ProcessGroupInitializer subclass __init__
Construct(r) ==
    /\ pc[r] = "new"
    /\ pc' = [pc EXCEPT ![r] = IF Accepts(axis, topology) THEN "constructed" ELSE "error"]
    /\ UNCHANGED << topology, axis, use_cpu, backend, transport, procs, loop, idx, calls,
                    group, loc, groups, made, result, split_vars >>

\* init_dist_group up to its first dist.new_group (or its return, with no iteration)
Enter(r) ==
    /\ pc[r] = "constructed"
    /\ IF Len(loop[r]) = 0
       THEN /\ pc' = [pc EXCEPT ![r] = "done"]
            /\ result' = [result EXCEPT ![r] = Returned(axis, InitialLocals, << >>)]
            /\ UNCHANGED << idx, calls >>
       ELSE /\ pc' = [pc EXCEPT ![r] = "new_group"]
            /\ idx' = [idx EXCEPT ![r] = 1]
            /\ calls' = [calls EXCEPT ![r] = << PrimaryCall(loop[r][1].ranks) >>]
            /\ UNCHANGED result
    /\ UNCHANGED << topology, axis, use_cpu, backend, transport, procs, loop,
                    group, loc, groups, made, split_vars >>

\* the rest of an iteration once its calls returned, up to the next
\* dist.new_group or the return
Finish(r, grp, grp_cpu) ==
    LET it == loop[r][idx[r]]
        l2 == Assigned(r, loc[r], it.ranks, grp, grp_cpu)
        gs2 == IF axis = "Initializer_Expert_Data"
               THEN Appended(r, groups[r], l2, it) ELSE groups[r]
    IN  /\ loc' = [loc EXCEPT ![r] = l2]
        /\ groups' = [groups EXCEPT ![r] = gs2]
        /\ made' = [made EXCEPT ![r] =
                       Append(@, [ranks |-> it.ranks, group |-> grp, group_cpu |-> grp_cpu])]
        /\ IF idx[r] < Len(loop[r])
           THEN /\ idx' = [idx EXCEPT ![r] = @ + 1]
                /\ calls' = [calls EXCEPT ![r] = Append(@, PrimaryCall(loop[r][idx[r] + 1].ranks))]
                /\ pc' = [pc EXCEPT ![r] = "new_group"]
                /\ UNCHANGED result
           ELSE /\ pc' = [pc EXCEPT ![r] = "done"]
                /\ result' = [result EXCEPT ![r] = Returned(axis, l2, gs2)]
                /\ UNCHANGED << idx, calls >>

\* dist.new_group(ranks) returns the handle `group`
NewGroupReturns(r) ==
    /\ pc[r] = "new_group"
    /\ Matched(r)
    /\ LET handle == Len(calls[r])
           it == loop[r][idx[r]]
       IN  IF NeedsCpuCall(use_cpu, backend)
           THEN /\ group' = [group EXCEPT ![r] = handle]
                /\ calls' = [calls EXCEPT ![r] = Append(@, CpuCall(it.ranks))]
                /\ pc' = [pc EXCEPT ![r] = "new_group_gloo"]
                /\ UNCHANGED << idx, loc, groups, made, result >>
           ELSE /\ group' = [group EXCEPT ![r] = handle]
                /\ Finish(r, handle, GroupCpu(use_cpu, backend, handle, None))
    /\ UNCHANGED << topology, axis, use_cpu, backend, transport, procs, loop, split_vars >>

\* dist.new_group(ranks, backend="gloo") returns
NewGroupGlooReturns(r) ==
    /\ pc[r] = "new_group_gloo"
    /\ Matched(r)
    /\ Finish(r, group[r], GroupCpu(use_cpu, backend, group[r], Len(calls[r])))
    /\ UNCHANGED << topology, axis, use_cpu, backend, transport, procs, loop, group,
                    split_vars >>

Next ==
    \/ \E r \in procs : Construct(r)
    \/ \E r \in procs : Enter(r)
    \/ \E r \in procs : NewGroupReturns(r)
    \/ \E r \in procs : NewGroupGlooReturns(r)

Spec == Init /\ [][Next]_vars

SpecStub == InitStub /\ [][Next]_vars

\* no rank crashes or stalls: as long as some rank can take a step, a step is
\* taken (every rank has finitely many steps, so each rank gets its turn)
Fairness == WF_vars(Next)

FairSpec == Init /\ [][Next]_vars /\ Fairness

(***************************************************************************)
(* split_params_into_different_groups_for_optimizer(param_groups).  A      *)
(* parameter is what the function reads of it: the results of              *)
(* is_norm_param, is_gate_param and is_moe_param, its dtype and its        *)
(* group_name; id tells the parameters of a call apart.  A group is its    *)
(* name, its params, the key set to True on it (flag) and weight_decay,    *)
(* the attribute copied from the original groups (None: key absent).       *)
(***************************************************************************)
\* a parameter without the attribute group_name
NoName == ""

\* the names of expert groups, as in the docstring's 'moe_ep_size_4'
ExpertGroupNames == { "moe_ep_size_2", "moe_ep_size_4" }

\* what the function can read of one parameter; only expert parameters carry group_name
ParamKinds ==
    { [is_norm |-> n, is_gate |-> g, dtype |-> d, is_moe |-> m, group_name |-> gn] :
        n \in BOOLEAN, g \in BOOLEAN, d \in { "float32", "bfloat16" },
        m \in BOOLEAN, gn \in ExpertGroupNames \cup { NoName } }

\* a dict {"name": ..., "params": [...], ...}
Group(name, flag, params, weight_decay) ==
    [name |-> name, flag |-> flag, params |-> params, weight_decay |-> weight_decay]

\* key in d, for the dict new_groups kept as the list of its values in insertion order
HasKey(d, key) == \E n \in 1..Len(d) : d[n].name = key

\* d[key] = val: a new key goes last, a known key keeps its place
setitem(d, key, val) ==
    IF HasKey(d, key)
    THEN [n \in 1..Len(d) |-> IF d[n].name = key THEN val ELSE d[n]]
    ELSE Append(d, val)

\* for key in gpc.expert_parallel_group_names: new_groups[key] = {..., "moe": True, ...}
RECURSIVE add_expert_groups(_, _)
add_expert_groups(d, names) ==
    IF Len(names) = 0 THEN d
    ELSE add_expert_groups(setitem(d, Head(names), Group(Head(names), "moe", << >>, None)),
                           Tail(names))

\* the dict new_groups before the loop over param_groups
create_new_groups(experts, names) ==
    LET fp32 == setitem(<< >>, "fp32", Group("fp32", "", << >>, None))
        gate == setitem(fp32, "gate", Group("gate", "gate", << >>, None))
        norm == setitem(gate, "norm", Group("norm", "norm", << >>, None))
    IN  IF experts > 1 THEN add_expert_groups(norm, names) ELSE fp32

\* the result of the if/elif chain for a parameter that stays in its group
Origin == "origin_params"

\* (mutant) the dtype is tested before is_gate_param
target_dtype_first(param, experts) ==
    IF experts > 1 /\ param.is_norm THEN "norm"
    ELSE IF param.dtype = "float32" THEN "fp32"
    ELSE IF param.is_gate THEN "gate"
    ELSE IF param.is_moe THEN param.group_name
    ELSE Origin

\* the if/elif chain: the key of new_groups the parameter is appended to
target(param, experts) ==
    IF experts > 1 /\ param.is_norm THEN "norm"
    ELSE IF param.is_gate THEN "gate"
    ELSE IF param.dtype = "float32" THEN "fp32"
    ELSE IF param.is_moe THEN param.group_name
    ELSE Origin

\* new_groups[key]["params"].append(param)
append_param(d, key, param) ==
    [n \in 1..Len(d) |->
        IF d[n].name = key THEN [d[n] EXCEPT !.params = Append(@, param)] ELSE d[n]]

\* the loop `for param in pgroup["params"]`: new_groups and origin_params after
\* it, or raised once new_groups[key] has no such key (KeyError)
RECURSIVE assign_params(_, _, _, _)
assign_params(params, d, origin_params, experts) ==
    IF Len(params) = 0
    THEN [new_groups |-> d, origin_params |-> origin_params, raised |-> FALSE]
    ELSE LET param == Head(params)
             key == target(param, experts)
         IN  IF key = Origin
             THEN assign_params(Tail(params), d, Append(origin_params, param), experts)
             ELSE IF ~HasKey(d, key)
             THEN [new_groups |-> d, origin_params |-> origin_params, raised |-> TRUE]
             ELSE assign_params(Tail(params), append_param(d, key, param),
                                origin_params, experts)

\* the loop `for ori_key in pgroup.keys()`: the attributes of pgroup besides
\* name and params are set on every new group
copy_attributes(d, pgroup) ==
    IF pgroup.weight_decay # None
    THEN [n \in 1..Len(d) |-> [d[n] EXCEPT !.weight_decay = pgroup.weight_decay]]
    ELSE d

\* the new groups that received a parameter, in the order of new_groups
nonempty_groups(d) == SelectSeq(d, LAMBDA g : Len(g.params) > 0)

\* the parameters id first..last of a call, of the given kinds
Params(kinds, first, last) ==
    [k \in 1..(last - first + 1) |->
        [id |-> first + k - 1,
         is_norm |-> kinds[first + k - 1].is_norm,
         is_gate |-> kinds[first + k - 1].is_gate,
         dtype |-> kinds[first + k - 1].dtype,
         is_moe |-> kinds[first + k - 1].is_moe,
         group_name |-> kinds[first + k - 1].group_name]]

\* The groups passed: the parameters 1..Len(kinds) in one group "default", or
\* cut into "default" and "extra" after parameter `cut`, each group with its
\* own weight_decay (as create_param_groups passes one).
ParamGroups(count, kinds, cut) ==
    IF count = 1
    THEN << Group("default", "", Params(kinds, 1, Len(kinds)), 1) >>
    ELSE << Group("default", "", Params(kinds, 1, cut), 1),
            Group("extra", "", Params(kinds, cut + 1, Len(kinds)), 2) >>

\* the types of argument tried: a tuple or a list of groups, one dict, an int
ArgTypes == { "tuple", "list", "dict", "int" }

\* no process group is being initialized
NoJob ==
    /\ axis = "none"
    /\ topology = [world_size |-> 0]
    /\ use_cpu = FALSE
    /\ backend = "nccl"
    /\ transport = "stub"
    /\ procs = {}
    /\ pc = << >> /\ loop = << >> /\ idx = << >> /\ calls = << >> /\ group = << >>
    /\ loc = << >> /\ groups = << >> /\ made = << >> /\ result = << >>

InitSplit ==
    /\ NoJob
    /\ split_pc = "call"
    /\ \E ty \in ArgTypes :
          IF ty = "int"
          THEN split_arg = [type |-> ty, groups |-> << >>]
          ELSE \E count \in (IF ty = "tuple" THEN {1, 2} ELSE {1}) :
               \E n \in 0..MaxParams :
               \E kinds \in [1..n -> { q \in ParamKinds : q.is_moe <=> q.group_name # NoName }] :
               \E cut \in (IF count = 1 THEN {n} ELSE 0..n) :
                   split_arg = [type |-> ty, groups |-> ParamGroups(count, kinds, cut)]
    /\ num_experts \in { 0, 1, 2 }
    /\ expert_parallel_group_names \in { << "moe_ep_size_2" >>, << "moe_ep_size_2", "moe_ep_size_4" >> }
    /\ param_groups = << >>
    /\ new_groups = << >>
    /\ pgroup_idx = 0
    /\ split_result = << >>

job_vars == << topology, axis, use_cpu, backend, transport, procs, pc, loop, idx, calls,
               group, loc, groups, made, result >>

\* the isinstance chain and the creation of new_groups
SplitEnter ==
    /\ split_pc = "call"
    /\ IF split_arg.type \in { "tuple", "list", "dict" }
       THEN /\ param_groups' = split_arg.groups
            /\ new_groups' = create_new_groups(num_experts, expert_parallel_group_names)
            /\ pgroup_idx' = 1
            /\ split_pc' = "loop"
       ELSE /\ split_pc' = "ValueError"
            /\ UNCHANGED << param_groups, new_groups, pgroup_idx >>
    /\ UNCHANGED << split_arg, num_experts, expert_parallel_group_names, split_result, job_vars >>

\* one iteration of `for pgroup in param_groups`
SplitGroup ==
    /\ split_pc = "loop"
    /\ pgroup_idx <= Len(param_groups)
    /\ LET pgroup == param_groups[pgroup_idx]
           after == assign_params(pgroup.params, copy_attributes(new_groups, pgroup),
                                  << >>, num_experts)
       IN  /\ new_groups' = after.new_groups
           /\ IF after.raised
              THEN /\ split_pc' = "KeyError"
                   /\ UNCHANGED << param_groups, pgroup_idx >>
              ELSE /\ param_groups' = [param_groups EXCEPT ![pgroup_idx].params = after.origin_params]
                   /\ pgroup_idx' = pgroup_idx + 1
                   /\ UNCHANGED split_pc
    /\ UNCHANGED << split_arg, num_experts, expert_parallel_group_names, split_result, job_vars >>

\* the loop over new_groups.items() and the return
SplitReturn ==
    /\ split_pc = "loop"
    /\ pgroup_idx > Len(param_groups)
    /\ param_groups' = param_groups \o nonempty_groups(new_groups)
    /\ split_result' = param_groups'
    /\ split_pc' = "done"
    /\ UNCHANGED << split_arg, num_experts, expert_parallel_group_names, new_groups,
                    pgroup_idx, job_vars >>

NextSplit ==
    \/ SplitEnter
    \/ SplitGroup
    \/ SplitReturn

SpecSplit == InitSplit /\ [][NextSplit]_vars

(***************************************************************************)
(* Properties                                                              *)
(***************************************************************************)
\* the `ranks` lists of one family among the iterations, in order
ListsOf(iterations, mode) ==
    LET sel == SelectSeq(iterations, LAMBDA it : it.mode = mode)
    IN  [n \in 1..Len(sel) |-> sel[n].ranks]

\* the families a class builds
Families(ax) ==
    IF ax = "Initializer_Expert_Data" THEN { "expert", "expert_data" } ELSE { ModeOf(ax) }

\* how often rank k is listed in the lists
Occurrences(k, lists) ==
    Cardinality({ pos \in { << n, m >> : n \in 1..Len(lists), m \in 1..(MaxWorldStub + 1) } :
                    pos[2] <= Len(lists[pos[1]]) /\ lists[pos[1]][pos[2]] = k })

\* C1: for every class and every topology its __init__ accepts, the partitions
\* of each family that init_dist_group goes through list every rank of
\* 0..world_size-1 exactly once (none omitted, none twice) and no other rank.
C1_PartitionsCoverOnce ==
    \A r \in procs : pc[r] = "done" =>
        \A mode \in Families(axis) :
            LET lists == ListsOf(loop[r], mode)
            IN  /\ \A k \in Ranks(topology) : Occurrences(k, lists) = 1
                /\ \A n \in 1..Len(lists) : \A m \in 1..Len(lists[n]) :
                      lists[n][m] \in Ranks(topology)

\* C2: the dist.new_group calls of any two ranks of a job are the same calls in
\* the same order (rank lists and backends), whatever the ranks are, and a rank
\* that returned has called dist.new_group for every partition of the class in
\* the order of the class, not only for the partitions that contain it.
C2_SameCallsOnEveryRank ==
    \A r1 \in procs :
        /\ \A r2 \in procs :
              /\ \A n \in 1..Len(calls[r1]) : n <= Len(calls[r2]) => calls[r1][n] = calls[r2][n]
              /\ (pc[r1] = "done" /\ pc[r2] = "done") => calls[r1] = calls[r2]
        /\ pc[r1] = "done" =>
              LET primary == SelectSeq(calls[r1], LAMBDA c : c.backend = "default")
                  every == Enumerated(axis, topology)
              IN  /\ Len(primary) = Len(every)
                  /\ \A n \in 1..Len(every) : primary[n].ranks = every[n].ranks

\* two ranks returned from the same calls, some of them for a partition that
\* does not contain the first rank
C2_Witness ==
    \E r1 \in procs : \E r2 \in procs \ {r1} :
        /\ pc[r1] = "done" /\ pc[r2] = "done"
        /\ Len(calls[r1]) >= 2
        /\ \E n \in 1..Len(calls[r1]) : ~in(r1, calls[r1][n].ranks)

\* C3: when every rank of the job runs the same class with the same sizes, no
\* rank crashes and dist.new_group returns once every rank has issued the same
\* call, every rank whose initializer was constructed eventually returns from
\* init_dist_group, and no call is left waiting for a call that never comes
\* (no timeout fires).
C3_EveryRankReturns ==
    /\ Accepts(axis, topology) ~> (\A r \in procs : pc[r] = "done")
    /\ [](\A r \in procs : ~TimesOut(r))

\* a job of at least two ranks whose ranks all returned after calls that had
\* to wait for each other
C3_Witness ==
    /\ transport = "collective"
    /\ Cardinality(procs) >= 2
    /\ \A r \in procs : pc[r] = "done" /\ Len(calls[r]) >= 2

\* C4 (as stated): a rank calls dist.new_group only for partitions that
\* contain it.
C4_CallsOnlyForOwnPartitions ==
    \A r \in procs : \A n \in 1..Len(calls[r]) : in(r, calls[r][n].ranks)

\* C4 (amended): a rank keeps a group (local rank, size, handles, rank list)
\* only of a partition that contains it, never the handle of a partition that
\* does not; the call itself it issues for every partition of the class, the
\* partitions that do not contain it included.
C4_KeepsOnlyOwnPartitions ==
    \A r \in procs :
        /\ loc[r].ranks_in_group # NoRanks => in(r, loc[r].ranks_in_group)
        /\ \A n \in 1..Len(made[r]) :
              ~in(r, made[r][n].ranks) =>
                  /\ loc[r].process_group # made[r][n].group
                  /\ \E c \in 1..Len(calls[r]) : calls[r][c].ranks = made[r][n].ranks
        /\ pc[r] = "done" =>
              LET every == Enumerated(axis, topology)
              IN  \A n \in 1..Len(every) :
                      \E c \in 1..Len(calls[r]) : calls[r][c].ranks = every[n].ranks

\* a rank returned with a group of its own after it also called dist.new_group
\* for a partition that does not contain it
C4_Witness ==
    \E r \in procs :
        /\ pc[r] = "done"
        /\ loc[r].process_group # None
        /\ \E n \in 1..Len(made[r]) : ~in(r, made[r][n].ranks)

\* an entry describes the partition of rank r whose call r issued
DescribesOwnPartition(r, e) ==
    /\ e.ranks_in_group # NoRanks
    /\ in(r, e.ranks_in_group)
    /\ e.local_rank = index(e.ranks_in_group, r)
    /\ e.group_world_size = Len(e.ranks_in_group)
    /\ e.process_group \in 1..Len(calls[r])
    /\ calls[r][e.process_group] = PrimaryCall(e.ranks_in_group)

\* C5: for every class and every rank, what init_dist_group returns describes
\* the partition that contains the rank: ranks_in_group lists the rank,
\* local_rank is its index in that list, group_world_size the length of the
\* list, and process_group the handle of the call made for that list.
C5_ReturnDescribesOwnPartition ==
    \A r \in procs : pc[r] = "done" =>
        /\ Len(result[r]) >= 1
        /\ \A n \in 1..Len(result[r]) : DescribesOwnPartition(r, result[r][n])

\* the divisibility a class asserts of the sizes, as the claim words it
ViolatesDivisibility(ax, t) ==
    CASE ax = "Initializer_Data" -> t.world_size % t.data_parallel_size # 0
      [] ax = "Initializer_Model" ->
            t.world_size % (t.tensor_parallel_size * t.pipeline_parallel_size) # 0
      [] ax = "Initializer_Tensor" -> t.world_size % t.tensor_parallel_size # 0
      [] ax = "Initializer_Pipeline" ->
            \/ t.world_size % t.data_parallel_size # 0
            \/ (t.world_size \div t.data_parallel_size) % t.pipeline_parallel_size # 0
      [] ax = "Initializer_Zero1" ->
            \/ t.world_size % t.data_parallel_size # 0
            \/ t.world_size % t.zero1_parallel_size # 0
      [] OTHER -> FALSE

\* the rank's initializer raised in __init__ (or is not constructed yet) and
\* the rank has issued no dist.new_group call
RejectedBeforeAnyCall(r) ==
    /\ pc[r] \in { "new", "error" }
    /\ calls[r] = << >>

\* C6: for Data, Model, Tensor, Pipeline and Zero1, sizes that violate the
\* divisibility the class asserts make __init__ raise, and the rank has issued
\* no dist.new_group call when it raises.
C6_IndivisibleSizesRejected ==
    \A r \in procs :
        ViolatesDivisibility(axis, topology) => RejectedBeforeAnyCall(r)

\* Initializer_Data with world_size=7 and data_parallel_size=2 raised
C6_Witness ==
    \E r \in procs :
        /\ axis = "Initializer_Data"
        /\ topology.world_size = 7 /\ topology.data_parallel_size = 2
        /\ pc[r] = "error" /\ calls[r] = << >>

PrimaryCalls(r) == SelectSeq(calls[r], LAMBDA c : c.backend = "default")

\* what Initializer_Expert_Data has done once rank r returned: one
\* dist.new_group(ranks) call per expert list and then one per expert-data
\* list; the expert lists are the chunks of expert_parallel_size ranks cut from
\* the first data_parallel_size positions of every data-parallel group (empty
\* chunks included), the first one starting at rank 0 with stride
\* pipeline*tensor; the expert-data lists may be none
ExpertDataCallsIssued(r) ==
    LET mp == topology.pipeline_parallel_size * topology.tensor_parallel_size
        ep == topology.expert_parallel_size
        chunks == (topology.data_parallel_size + ep - 1) \div ep
        dp0 == (topology.world_size + mp - 1) \div mp
        first == IF ep < dp0 THEN ep ELSE dp0
        expert == ListsOf(loop[r], "expert")
        expert_data == ListsOf(loop[r], "expert_data")
        primary == PrimaryCalls(r)
    IN  /\ Len(expert) = mp * chunks
        /\ Len(expert) >= 1
        /\ expert[1] = [k \in 1..first |-> (k - 1) * mp]
        /\ Len(expert[1]) >= 1
        /\ Len(primary) = Len(expert) + Len(expert_data)
        /\ \A n \in 1..Len(expert) : primary[n].ranks = expert[n]
        /\ \A n \in 1..Len(expert_data) : primary[Len(expert) + n].ranks = expert_data[n]
        /\ Len(made[r]) = Len(primary)
        /\ \A n \in 1..Len(result[r]) : in(r, result[r][n].ranks_in_group)

C7_ExpertRejected ==
    \E r \in procs :
        /\ axis = "Initializer_Expert"
        /\ topology.data_parallel_size # topology.expert_parallel_size
        /\ topology.world_size % topology.expert_parallel_size = 0
        /\ pc[r] = "error" /\ calls[r] = << >>

C7_NoExpertDataList ==
    \E r \in procs :
        /\ axis = "Initializer_Expert_Data"
        /\ topology.world_size = 1
        /\ topology.data_parallel_size = 2 /\ topology.expert_parallel_size = 1
        /\ pc[r] = "done"
        /\ ListsOf(loop[r], "expert") = << << 0 >>, << >> >>
        /\ ListsOf(loop[r], "expert_data") = << >>
        /\ Len(PrimaryCalls(r)) = 2

\* the sizes of the worked example, for a given expert_parallel_size
WorkedExample(ep) ==
    /\ axis = "Initializer_Expert_Data"
    /\ topology.world_size = 8
    /\ topology.pipeline_parallel_size * topology.tensor_parallel_size = 2
    /\ topology.data_parallel_size = 4
    /\ topology.expert_parallel_size = ep

\* the groups of the worked example
WorkedExampleGroups(r) ==
    /\ ListsOf(loop[r], "expert") = << << 0, 2 >>, << 4, 6 >>, << 1, 3 >>, << 5, 7 >> >>
    /\ ListsOf(loop[r], "expert_data") = << << 0, 4 >>, << 2, 6 >>, << 1, 5 >>, << 3, 7 >> >>

\* C8 (as stated): with world_size=8, pipeline*tensor=2 and data_parallel_size =
\* expert_parallel_size = 4, Initializer_Expert_Data goes through the expert
\* groups [0,2],[4,6],[1,3],[5,7] and then the expert-data groups
\* [0,4],[2,6],[1,5],[3,7].
C8_WorkedExampleEp4 ==
    \A r \in procs : (WorkedExample(4) /\ pc[r] = "done") => WorkedExampleGroups(r)

\* C8 (amended): the same groups in the same order, for world_size=8,
\* pipeline*tensor=2, data_parallel_size=4 and expert_parallel_size=2.
C8_WorkedExampleEp2 ==
    \A r \in procs : (WorkedExample(2) /\ pc[r] = "done") => WorkedExampleGroups(r)

\* a rank returned from init_dist_group on the sizes of the amended example
C8_Witness ==
    \E r \in procs : WorkedExample(2) /\ pc[r] = "done" /\ Len(result[r]) = 2

\* C9: for every topology Initializer_Expert accepts there are
\* world_size/expert_parallel_size groups of exactly expert_parallel_size
\* members, group i listing the ranks i, i+G, i+2G, ... with G =
\* world_size/expert_parallel_size.
C9_ExpertGroupsInterleaved ==
    \A r \in procs : (axis = "Initializer_Expert" /\ pc[r] = "done") =>
        LET lists == ListsOf(loop[r], "expert")
            G == topology.world_size \div topology.expert_parallel_size
        IN  /\ Len(lists) * topology.expert_parallel_size = topology.world_size
            /\ \A i \in 1..Len(lists) :
                  /\ Len(lists[i]) = topology.expert_parallel_size
                  /\ \A k \in 1..Len(lists[i]) : lists[i][k] = (i - 1) + (k - 1) * G

\* dist.new_group(ranks, backend="gloo") was called by rank r
CalledGloo(r) == \E c \in 1..Len(calls[r]) : calls[r][c].backend = "gloo"

\* C10: in every iteration of every class, group_cpu follows use_cpu and the
\* backend: without use_cpu it is None and no gloo group is created; with
\* use_cpu on the gloo backend it is the handle `group` itself and no second
\* call is made; with use_cpu on another backend it is the handle of a gloo
\* group created for the same rank list by the call right after the primary
\* one.  A returned cpu_group is the group_cpu of the returned process_group.
C10_FallbackFollowsFlagAndBackend ==
    \A r \in procs :
        /\ \A n \in 1..Len(made[r]) :
              LET m == made[r][n]
              IN  /\ ~use_cpu => m.group_cpu = None
                  /\ (use_cpu /\ backend = "gloo") => m.group_cpu = m.group
                  /\ (use_cpu /\ backend # "gloo") =>
                        /\ m.group_cpu = m.group + 1
                        /\ calls[r][m.group] = PrimaryCall(m.ranks)
                        /\ calls[r][m.group_cpu] = CpuCall(m.ranks)
        /\ (~use_cpu \/ backend = "gloo") =>
              /\ ~CalledGloo(r)
              /\ Len(calls[r]) <= Len(made[r]) + 1
        /\ \A n \in 1..Len(result[r]) :
              LET e == result[r][n]
              IN  e.process_group # None =>
                      \E k \in 1..Len(made[r]) :
                          /\ made[r][k].group = e.process_group
                          /\ made[r][k].group_cpu = e.cpu_group

\* on the gloo backend with use_cpu a rank returned the primary handle as its
\* cpu_group, after one call per partition
C10_Witness ==
    \E r \in procs :
        /\ use_cpu /\ backend = "gloo"
        /\ pc[r] = "done"
        /\ Len(result[r]) >= 1
        /\ result[r][1].process_group # None
        /\ result[r][1].cpu_group = result[r][1].process_group
        /\ Len(calls[r]) = Len(made[r])
        /\ Len(calls[r]) >= 2

\* C11: for every topology Initializer_Pipeline accepts, with block =
\* world_size/data_parallel_size and stage = block/pipeline_parallel_size, the
\* loop goes through data_parallel_size*stage groups, data block i first and
\* offset j second, group (i,j) listing the ranks i*block + j + s*stage for s in
\* 0..pipeline_parallel_size-1: every group has pipeline_parallel_size members
\* inside data block i, and the group a rank returns is such a group.
C11_PipelineGroupsStrided ==
    \A r \in procs : (axis = "Initializer_Pipeline" /\ pc[r] = "done") =>
        LET lists == ListsOf(loop[r], "pipe")
            block == topology.world_size \div topology.data_parallel_size
            stage == block \div topology.pipeline_parallel_size
        IN  /\ Len(lists) = topology.data_parallel_size * stage
            /\ \A i \in 0..(topology.data_parallel_size - 1) : \A j \in 0..(stage - 1) :
                  LET g == lists[i * stage + j + 1]
                  IN  /\ Len(g) = topology.pipeline_parallel_size
                      /\ \A s \in 0..(topology.pipeline_parallel_size - 1) :
                            g[s + 1] = i * block + j + s * stage
                      /\ \A m \in 1..Len(g) : g[m] \div block = i
            /\ Len(result[r]) = 1
            /\ Len(result[r][1].ranks_in_group) = topology.pipeline_parallel_size
            /\ in(r, result[r][1].ranks_in_group)
            /\ \E n \in 1..Len(lists) : lists[n] = result[r][1].ranks_in_group

\* Initializer_Pipeline returned on world_size=8, data_parallel_size=2,
\* pipeline_parallel_size=2 after the groups [0,2],[1,3],[4,6],[5,7]
C11_Witness ==
    \E r \in procs :
        /\ axis = "Initializer_Pipeline"
        /\ topology.world_size = 8
        /\ topology.data_parallel_size = 2
        /\ topology.pipeline_parallel_size = 2
        /\ pc[r] = "done"
        /\ ListsOf(loop[r], "pipe") = << << 0, 2 >>, << 1, 3 >>, << 4, 6 >>, << 5, 7 >> >>

\* the smallest number of groups of at most `size` ranks that hold `world` ranks
CeilDiv(world, size) == CHOOSE n \in 0..world : n * size >= world /\ (n - 1) * size < world

\* C12: for every world_size >= 1 and nettest_parallel_size >= 1, divisible or
\* not, Initializer_Nettest goes through ceil(world_size/nettest_parallel_size)
\* groups of consecutive ranks: no group is empty, every group but the last has
\* nettest_parallel_size members, the last has the remaining ranks, no listed
\* rank is >= world_size and every rank is in exactly one group, which is the
\* group the rank returns.
C12_NettestChunks ==
    \A r \in procs : (axis = "Initializer_Nettest" /\ pc[r] = "done") =>
        LET lists == ListsOf(loop[r], "nettest")
            W == topology.world_size
            S == topology.nettest_parallel_size
            flat == extend(lists)
        IN  /\ Len(lists) = CeilDiv(W, S)
            /\ \A n \in 1..Len(lists) : Len(lists[n]) >= 1
            /\ \A n \in 1..(Len(lists) - 1) : Len(lists[n]) = S
            /\ Len(lists[Len(lists)]) = W - (Len(lists) - 1) * S
            /\ Len(flat) = W
            /\ \A k \in 1..Len(flat) : flat[k] = k - 1
            /\ \A k \in Ranks(topology) : Occurrences(k, lists) = 1
            /\ Len(result[r]) = 1
            /\ in(r, result[r][1].ranks_in_group)
            /\ \E n \in 1..Len(lists) : lists[n] = result[r][1].ranks_in_group

\* Initializer_Nettest returned on world_size=7, nettest_parallel_size=3 after
\* the groups [0,1,2],[3,4,5] and the truncated [6]
C12_Witness ==
    \E r \in procs :
        /\ axis = "Initializer_Nettest"
        /\ topology.world_size = 7
        /\ topology.nettest_parallel_size = 3
        /\ pc[r] = "done"
        /\ ListsOf(loop[r], "nettest") = << << 0, 1, 2 >>, << 3, 4, 5 >>, << 6 >> >>

\* C13: for every topology Initializer_Zero1 accepts, with block =
\* world_size/data_parallel_size, the loop goes through
\* block*(data_parallel_size/zero1_parallel_size) groups, group (i,k) listing
\* the ranks i + (k*zero1_parallel_size + m)*block for m in
\* 0..zero1_parallel_size-1; every rank returns a group of its own (local_rank
\* is not None) of exactly zero1_parallel_size members, all of them members of
\* the rank's group in Initializer_Data.
C13_Zero1GroupsWithinData ==
    \A r \in procs : (axis = "Initializer_Zero1" /\ pc[r] = "done") =>
        LET lists == ListsOf(loop[r], "zero1")
            block == topology.world_size \div topology.data_parallel_size
            Z == topology.zero1_parallel_size
            per == topology.data_parallel_size \div Z
            own == Initializer_Data_ranks(topology)[(r % block) + 1]
        IN  /\ Len(lists) = block * per
            /\ \A i \in 0..(block - 1) : \A k \in 0..(per - 1) :
                  lists[i * per + k + 1] = [m \in 1..Z |-> i + (k * Z + (m - 1)) * block]
            /\ Len(result[r]) = 1
            /\ result[r][1].local_rank # None
            /\ in(r, result[r][1].ranks_in_group)
            /\ Len(result[r][1].ranks_in_group) = Z
            /\ \A m \in 1..Len(result[r][1].ranks_in_group) :
                  in(result[r][1].ranks_in_group[m], own)

\* the argument is a tuple or list of parameter groups, or one group
IsGroupList == split_arg.type \in { "tuple", "list", "dict" }

\* the parameters passed, each with the index of its group
InputParams ==
    UNION { { << gi, split_arg.groups[gi].params[k] >> :
                k \in 1..Len(split_arg.groups[gi].params) } :
            gi \in 1..Len(split_arg.groups) }

\* the first rule that matches a parameter, in the order norm (with
\* num_experts > 1 only), gate, float32, moe, and otherwise none
RuleOf(q) ==
    CASE num_experts > 1 /\ q.is_norm -> "norm"
      [] ~(num_experts > 1 /\ q.is_norm) /\ q.is_gate -> "gate"
      [] ~(num_experts > 1 /\ q.is_norm) /\ ~q.is_gate /\ q.dtype = "float32" -> "fp32"
      [] ~(num_experts > 1 /\ q.is_norm) /\ ~q.is_gate /\ q.dtype # "float32" /\ q.is_moe -> "moe"
      [] OTHER -> "original"

\* the groups of the result that hold the parameter with this id
HoldersOf(id) ==
    { n \in 1..Len(split_result) :
        \E m \in 1..Len(split_result[n].params) : split_result[n].params[m].id = id }

\* how often the parameter with this id is listed in the result
TimesListed(id) ==
    Cardinality({ pos \in { << n, m >> : n \in 1..Len(split_result), m \in 1..(MaxParams + 1) } :
                    /\ pos[2] <= Len(split_result[pos[1]].params)
                    /\ split_result[pos[1]].params[pos[2]].id = id })

\* the result holds every parameter passed exactly once, in the group of its
\* first matching rule; the groups passed come first, in their order; every
\* group after them holds a parameter
Partitioned ==
    LET passed == Len(split_arg.groups)
    IN  /\ Len(split_result) >= passed
        /\ \A gi \in 1..passed : split_result[gi].name = split_arg.groups[gi].name
        /\ \A n \in (passed + 1)..Len(split_result) : Len(split_result[n].params) > 0
        /\ \A n \in 1..Len(split_result) : \A m \in 1..Len(split_result[n].params) :
              \E gi \in 1..passed : << gi, split_result[n].params[m] >> \in InputParams
        /\ \A ip \in InputParams :
              LET gi == ip[1]
                  q == ip[2]
                  rule == RuleOf(q)
              IN  /\ TimesListed(q.id) = 1
                  /\ \A n \in HoldersOf(q.id) :
                        IF rule = "original" THEN n = gi
                        ELSE /\ n > passed
                             /\ split_result[n].name =
                                   (IF rule = "moe" THEN q.group_name ELSE rule)

\* C14 (as stated): for every list of parameter groups and every MoE setting the
\* call returns normally, and the result holds every parameter passed exactly
\* once, in the group of its first matching rule (norm with num_experts > 1
\* only, gate, float32, moe by group_name, else its original group), the
\* original groups first and a new group only when it received a parameter.
C14_SplitAlwaysPartitions ==
    IsGroupList =>
        /\ split_pc \notin { "KeyError", "ValueError" }
        /\ split_pc = "done" => Partitioned

\* the names of the groups new_groups is created with
CreatedNames ==
    { "fp32" } \cup
    (IF num_experts > 1
     THEN { "gate", "norm" } \cup
          { expert_parallel_group_names[k] : k \in 1..Len(expert_parallel_group_names) }
     ELSE {})

\* the first matching rule of the parameter names a group that was not created
Unroutable(q) ==
    \/ RuleOf(q) = "gate" /\ "gate" \notin CreatedNames
    \/ RuleOf(q) = "moe" /\ q.group_name \notin CreatedNames

\* C14 (amended): for every list of parameter groups and every MoE setting the
\* call raises KeyError exactly when the first matching rule of some parameter
\* names a group that was not created (gate while num_experts <= 1, or moe with
\* a group_name that is no created group); otherwise it returns normally and
\* the result holds every parameter passed exactly once, in the group of its
\* first matching rule, the original groups first and a new group only when it
\* received a parameter.
C14_SplitPartitionsUnlessUnroutable ==
    IsGroupList =>
        /\ split_pc # "ValueError"
        /\ split_pc = "KeyError" => \E ip \in InputParams : Unroutable(ip[2])
        /\ split_pc = "done" =>
              /\ \A ip \in InputParams : ~Unroutable(ip[2])
              /\ Partitioned

\* with num_experts > 1 the call returned the original group, the norm group
\* and an expert group for two parameters passed in one group
C14_Witness ==
    /\ split_pc = "done"
    /\ num_experts > 1
    /\ Len(split_arg.groups) = 1
    /\ Len(split_arg.groups[1].params) = 2
    /\ Len(split_result) = 3
    /\ split_result[1].name = "default"
    /\ split_result[2].name = "norm" /\ Len(split_result[2].params) = 1
    /\ split_result[3].name = "moe_ep_size_4" /\ Len(split_result[3].params) = 1

====
